---- MODULE Spec2Model ----
(***************************************************************************)
(* Actor-critic agents of ppo_continuous_action_isaacgym.ipynb: Agent,     *)
(* SampledAgent, BayesianAgent and BayesianAgent.sample_vanilla_agent.     *)
(*                                                                         *)
(* A tensor is a storage cell of the heap, named by its address; top is    *)
(* the last address handed out.  A cell holds the tensor's shape and one   *)
(* integer that stands for its contents.  A cell no object refers to any   *)
(* longer is freed.  A module (layer) is a record with an object   *)
(* identity oid and the addresses of its parameter tensors.  The torch     *)
(* generator is the counter rng: every random draw reads Rand(rng) and     *)
(* advances it.                                                            *)
(***************************************************************************)
EXTENDS Integers, Sequences, FiniteSets, TLC

VARIABLES heap, top, rng, nextOid, bayes, agents, hist, last, op, nmut

vars == <<heap, top, rng, nextOid, bayes, agents, hist, last, op, nmut>>

(* ------------------------------ bounds -------------------------------- *)
MaxSamples == 2
MaxMutations == 2
MaxBatch == 2
MaxLen == 2
RngPeriod == 3

(* ------------------------- program constants -------------------------- *)
Hidden == 256
NumberOfCellTypes == 256
ValueWidth == 1
\* layer_init gains, in hundredths: sqrt(2), 1.0, 0.01
StdDefault == 141
StdCritic == 100
StdActor == 1

\* the environments the agents are sized for: Anymal (48 observations,
\* 12 actions) and a small one whose widths are all different
Envs == {[obs |-> 48, act |-> 12], [obs |-> 3, act |-> 2]}

(* ------------------------------ tensors ------------------------------- *)
Tensor(shape, val) == [shape |-> shape, val |-> val]

\* one output of the torch generator in state r
Rand(r) == (r % 3) - 1

NextRng(r) == (r + 1) % RngPeriod

\* the threaded interpreter state: heap, last address, generator, next
\* object id and the log of the sampler draws of the running call
St(h, t, r, o, d) == [heap |-> h, top |-> t, rng |-> r, oid |-> o, draws |-> d]

\* v = e; F(v): e is evaluated once and named, as an assignment does
Bind(e, F(_)) == CHOOSE y \in {F(v) : v \in {e}} : TRUE

\* a new tensor with the given contents; its address is Top of the result
Alloc(st, t) ==
    [st EXCEPT !.heap = @ @@ ((st.top + 1) :> t), !.top = @ + 1]

Top(st) == st.top

\* a new tensor filled from the generator (torch's default initialisers)
AllocRand(st, shape) ==
    [Alloc(st, Tensor(shape, Rand(st.rng))) EXCEPT !.rng = NextRng(@)]

(* ------------------------------ modules ------------------------------- *)
\* w, b: addresses of weight and bias (for a BayesianLinear, of their
\* means); w_rho, b_rho: addresses of the spread parameters; from: the oid
\* of the source component a sampled layer was built for (0: none)
Module(kind, oid, inF, outF, w, b, wr, br, from) ==
    [kind |-> kind, oid |-> oid, in_features |-> inF, out_features |-> outF,
     w |-> w, b |-> b, w_rho |-> wr, b_rho |-> br, from |-> from]

\* nn.Linear(in_features, out_features, bias=True): weight (out, in) and
\* bias (out,) freshly initialised from the generator
nn_Linear(st, inF, outF) ==
    Bind(AllocRand(st, <<outF, inF>>), LAMBDA s1 :
    Bind(AllocRand(s1, <<outF>>), LAMBDA s2 :
    [st |-> [s2 EXCEPT !.oid = @ + 1],
     m  |-> Module("Linear", s2.oid, inF, outF, Top(s1), Top(s2), 0, 0, 0)]))

nn_Tanh(st) ==
    [st |-> [st EXCEPT !.oid = @ + 1],
     m  |-> Module("Tanh", st.oid, 0, 0, 0, 0, 0, 0, 0)]

\* layer_init(layer, std, bias_const): orthogonal_ rewrites the weight in
\* place from the generator, constant_ rewrites the bias in place.  layer
\* comes with the state it was built in.
layer_init(layer, std, bias_const) ==
    Bind(layer, LAMBDA r :
    [st |-> [r.st EXCEPT !.heap[r.m.w].val = std * Rand(r.st.rng),
                         !.heap[r.m.b].val = bias_const,
                         !.rng = NextRng(@)],
     m  |-> r.m])

\* BayesianLinear(in, out, ...): mean and spread tensors for weight and bias
RhoInit == 0
BayesianLinear_init(st, inF, outF) ==
    Bind(AllocRand(st, <<outF, inF>>), LAMBDA s1 :
    Bind(Alloc(s1, Tensor(<<outF, inF>>, RhoInit)), LAMBDA s2 :
    Bind(AllocRand(s2, <<outF>>), LAMBDA s3 :
    Bind(Alloc(s3, Tensor(<<outF>>, RhoInit)), LAMBDA s4 :
    [st |-> [s4 EXCEPT !.oid = @ + 1],
     m  |-> Module("BayesianLinear", s4.oid, inF, outF,
                   Top(s1), Top(s3), Top(s2), Top(s4), 0)]))))

\* the spread parameter mapped to a strictly positive standard deviation
Sigma(rho) == IF rho > 0 THEN rho + 1 ELSE 1

\* weight_sampler.sample() / bias_sampler.sample(): one fresh tensor of the
\* mean's shape, mean + sigma * eps; the distribution parameters are only
\* read.  which is "weight" or "bias".
Sampler_sample(st, layer, which) ==
    LET mu  == IF which = "weight" THEN layer.w ELSE layer.b
        rho == IF which = "weight" THEN layer.w_rho ELSE layer.b_rho
        t   == Tensor(st.heap[mu].shape,
                      st.heap[mu].val + Sigma(st.heap[rho].val) * Rand(st.rng))
    IN  [Alloc(st, t) EXCEPT
            !.rng = NextRng(@),
            !.draws = Append(@, [layer |-> layer.oid, which |-> which,
                                 addr |-> st.top + 1, t |-> t])]

(* ------------------------------ agents -------------------------------- *)
AgentRec(critic, actor_mean, actor_logstd, envs) ==
    [critic |-> critic, actor_mean |-> actor_mean,
     actor_logstd |-> actor_logstd, envs |-> envs]

\* Agent.__init__(envs): three initialised Linear layers with Tanh between
\* them for the critic, the same for actor_mean, and a zero actor_logstd
Agent_init(st, envs) ==
    Bind(layer_init(nn_Linear(st, envs.obs, Hidden), StdDefault, 0), LAMBDA c1 :
    Bind(nn_Tanh(c1.st), LAMBDA c2 :
    Bind(layer_init(nn_Linear(c2.st, Hidden, Hidden), StdDefault, 0), LAMBDA c3 :
    Bind(nn_Tanh(c3.st), LAMBDA c4 :
    Bind(layer_init(nn_Linear(c4.st, Hidden, ValueWidth), StdCritic, 0), LAMBDA c5 :
    Bind(layer_init(nn_Linear(c5.st, envs.obs, Hidden), StdDefault, 0), LAMBDA a1 :
    Bind(nn_Tanh(a1.st), LAMBDA a2 :
    Bind(layer_init(nn_Linear(a2.st, Hidden, Hidden), StdDefault, 0), LAMBDA a3 :
    Bind(nn_Tanh(a3.st), LAMBDA a4 :
    Bind(layer_init(nn_Linear(a4.st, Hidden, envs.act), StdActor, 0), LAMBDA a5 :
    Bind(Alloc(a5.st, Tensor(<<1, envs.act>>, 0)), LAMBDA s6 :
    [st |-> s6,
     agent |-> AgentRec(<<c1.m, c2.m, c3.m, c4.m, c5.m>>,
                        <<a1.m, a2.m, a3.m, a4.m, a5.m>>, Top(s6), envs)]
    )))))))))))

\* SampledAgent.__init__(envs, critic, actor_mean, actor_logstd): the base
\* constructor builds default sub-networks, then the three fields are
\* rebound to the arguments.  defaults is the agent the base constructor
\* built.
SampledAgent_init_keeps_critic(st, envs, critic, actor_mean, actor_logstd) ==
    Bind(Agent_init(st, envs), LAMBDA d :
    [st |-> d.st,
     agent |-> [d.agent EXCEPT !.actor_mean = actor_mean,
                               !.actor_logstd = actor_logstd],
     defaults |-> d.agent])

SampledAgent_init(st, envs, critic, actor_mean, actor_logstd) ==
    Bind(Agent_init(st, envs), LAMBDA d :
    [st |-> d.st,
     agent |-> [d.agent EXCEPT !.critic = critic,
                               !.actor_mean = actor_mean,
                               !.actor_logstd = actor_logstd],
     defaults |-> d.agent])

\* BayesianAgent.__init__(envs, number_of_cell_types): two BayesianLinear
\* layers with Tanh after each and a plain initialised Linear output layer,
\* for the critic and for actor_mean; a zero actor_logstd; envs is kept
BayesianAgent_init(st, envs, number_of_cell_types) ==
    Bind(BayesianLinear_init(st, envs.obs, Hidden), LAMBDA c1 :
    Bind(nn_Tanh(c1.st), LAMBDA c2 :
    Bind(BayesianLinear_init(c2.st, Hidden, Hidden), LAMBDA c3 :
    Bind(nn_Tanh(c3.st), LAMBDA c4 :
    Bind(layer_init(nn_Linear(c4.st, Hidden, ValueWidth), StdCritic, 0), LAMBDA c5 :
    Bind(BayesianLinear_init(c5.st, envs.obs, Hidden), LAMBDA a1 :
    Bind(nn_Tanh(a1.st), LAMBDA a2 :
    Bind(BayesianLinear_init(a2.st, Hidden, Hidden), LAMBDA a3 :
    Bind(nn_Tanh(a3.st), LAMBDA a4 :
    Bind(layer_init(nn_Linear(a4.st, Hidden, envs.act), StdActor, 0), LAMBDA a5 :
    Bind(Alloc(a5.st, Tensor(<<1, envs.act>>, 0)), LAMBDA s6 :
    [st |-> s6,
     agent |-> AgentRec(<<c1.m, c2.m, c3.m, c4.m, c5.m>>,
                        <<a1.m, a2.m, a3.m, a4.m, a5.m>>, Top(s6), envs)]
    )))))))))))

(* ------------------------- sample_vanilla_agent ----------------------- *)
\* deepcopy(a_layer) of an nn.Linear: a new module owning new tensors that
\* hold the same contents
deepcopy_layer_alias(st, m) ==
    [st |-> [st EXCEPT !.oid = @ + 1], m |-> [m EXCEPT !.oid = st.oid]]

deepcopy_layer(st, m) ==
    Bind(Alloc(st, st.heap[m.w]), LAMBDA s1 :
    Bind(Alloc(s1, st.heap[m.b]), LAMBDA s2 :
    [st |-> [s2 EXCEPT !.oid = @ + 1],
     m  |-> [m EXCEPT !.oid = s2.oid, !.w = Top(s1), !.b = Top(s2)]]))

\* deepcopy(self.actor_logstd): a new tensor with the same contents
deepcopy_param(st, a) ==
    Bind(Alloc(st, st.heap[a]), LAMBDA s1 : [st |-> s1, addr |-> Top(s1)])

\* construct_vanilla_layer(weights, biases): an nn.Linear sized from the
\* weight's shape whose weight.data and bias.data are then rebound to the
\* given tensors (weights, biases are their addresses)
construct_vanilla_layer_swapped(st, weights, biases) ==
    Bind(nn_Linear(st, st.heap[weights].shape[1], st.heap[weights].shape[2]),
         LAMBDA r : [st |-> r.st, m |-> [r.m EXCEPT !.w = weights, !.b = biases]])

construct_vanilla_layer_unassigned(st, weights, biases) ==
    nn_Linear(st, st.heap[weights].shape[2], st.heap[weights].shape[1])

construct_vanilla_layer(st, weights, biases) ==
    Bind(nn_Linear(st, st.heap[weights].shape[2], st.heap[weights].shape[1]),
         LAMBDA r : [st |-> r.st, m |-> [r.m EXCEPT !.w = weights, !.b = biases]])

\* self.construct_vanilla_layer(a_layer.weight_sampler.sample(),
\*                              a_layer.bias_sampler.sample()):
\* the weight is drawn, then the bias, then the layer is built from them
sampled_layer(st, a_layer) ==
    Bind(Sampler_sample(st, a_layer, "weight"), LAMBDA s1 :
    Bind(Sampler_sample(s1, a_layer, "bias"), LAMBDA s2 :
    Bind(construct_vanilla_layer(s2, Top(s1), Top(s2)), LAMBDA r :
    [st |-> r.st, m |-> [r.m EXCEPT !.from = a_layer.oid]])))

\* deepcopy(a_layer), appended
copied_layer(st, a_layer) ==
    Bind(deepcopy_layer(st, a_layer), LAMBDA r :
    [st |-> r.st, out |-> <<[r.m EXCEPT !.from = a_layer.oid]>>])

\* the sampled layer and the nn.Tanh() appended after it
sampled_layer_and_tanh(st, a_layer) ==
    Bind(sampled_layer(st, a_layer), LAMBDA r :
    Bind(nn_Tanh(r.st), LAMBDA t :
    [st |-> t.st, out |-> <<r.m, [t.m EXCEPT !.from = a_layer.oid]>>]))

\* the body of the for loops of sample_vanilla_agent for one component:
\* the layers it appends.  type(a_layer) == ... compares the exact type.
sample_component_no_tanh(st, a_layer) ==
    IF a_layer.kind = "BayesianLinear"
    THEN Bind(sampled_layer(st, a_layer), LAMBDA r : [st |-> r.st, out |-> <<r.m>>])
    ELSE IF a_layer.kind = "Linear" THEN copied_layer(st, a_layer)
    ELSE [st |-> st, out |-> <<>>]

sample_component_copies_rest(st, a_layer) ==
    IF a_layer.kind = "BayesianLinear" THEN sampled_layer_and_tanh(st, a_layer)
    ELSE IF a_layer.kind = "Linear" THEN copied_layer(st, a_layer)
    ELSE [st |-> [st EXCEPT !.oid = @ + 1],
          out |-> <<[a_layer EXCEPT !.oid = st.oid, !.from = a_layer.oid]>>]

sample_component(st, a_layer) ==
    IF a_layer.kind = "BayesianLinear" THEN sampled_layer_and_tanh(st, a_layer)
    ELSE IF a_layer.kind = "Linear" THEN copied_layer(st, a_layer)
    ELSE [st |-> st, out |-> <<>>]

\* for _, a_layer in enumerate(seq): components i.. of seq, appended to acc
RECURSIVE sample_layers(_, _, _, _)
sample_layers(st, seq, i, acc) ==
    IF i > Len(seq) THEN [st |-> st, layers |-> acc]
    ELSE Bind(sample_component(st, seq[i]), LAMBDA r :
         sample_layers(r.st, seq, i + 1, acc \o r.out))

\* sample_vanilla_agent(self): self after the call, the returned agent, the
\* pieces assembled for it and the agent the base constructor had built
sample_vanilla_agent_rebinds_self(st, self) ==
    Bind(sample_layers(st, self.actor_mean, 1, <<>>), LAMBDA a :
    Bind(sample_layers(a.st, self.critic, 1, <<>>), LAMBDA c :
    Bind(deepcopy_param(c.st, self.actor_logstd), LAMBDA l :
    Bind(SampledAgent_init(l.st, self.envs, c.layers, a.layers, l.addr), LAMBDA v :
    [st |-> v.st, self |-> [self EXCEPT !.actor_mean = a.layers],
     agent |-> v.agent,
     pieces |-> AgentRec(c.layers, a.layers, l.addr, self.envs),
     defaults |-> v.defaults]))))

sample_vanilla_agent(st, self) ==
    Bind(sample_layers(st, self.actor_mean, 1, <<>>), LAMBDA a :
    Bind(sample_layers(a.st, self.critic, 1, <<>>), LAMBDA c :
    Bind(deepcopy_param(c.st, self.actor_logstd), LAMBDA l :
    Bind(SampledAgent_init(l.st, self.envs, c.layers, a.layers, l.addr), LAMBDA v :
    [st |-> v.st, self |-> self, agent |-> v.agent,
     pieces |-> AgentRec(c.layers, a.layers, l.addr, self.envs),
     defaults |-> v.defaults]))))

(* ---------------------------- forward pass ---------------------------- *)
\* An activation is a shape and the trace of the computation that produced
\* it: the input's contents followed by the contents of every parameter and
\* the mark of every nonlinearity applied to it, in order.
TagLinear == 101
TagTanh == 102
TagExp == 104
TagSample == 105
TagLogProb == 106
TagEntropy == 107
TagSum == 108

\* none marks Python's None, which is no tensor at all; a tensor of any
\* shape, the 0-dimensional one included, is not None
Act(shape, val) == [shape |-> shape, val |-> val, err |-> FALSE, none |-> FALSE]

ErrT == [shape |-> <<>>, val |-> <<>>, err |-> TRUE, none |-> FALSE]

\* action=None
NoneT == [shape |-> <<>>, val |-> <<>>, err |-> FALSE, none |-> TRUE]

\* action is None: an identity test, the shape plays no part
IsNone(a) == a.none

\* torch broadcasting of two shapes, right aligned
Pad(s, n) == [i \in 1..n |-> IF i <= n - Len(s) THEN 1 ELSE s[i - (n - Len(s))]]

Max(a, b) == IF a >= b THEN a ELSE b

Broadcastable(s1, s2) ==
    LET n == Max(Len(s1), Len(s2))
    IN  \A i \in 1..n : \/ Pad(s1, n)[i] = Pad(s2, n)[i]
                        \/ Pad(s1, n)[i] = 1
                        \/ Pad(s2, n)[i] = 1

\* per axis the size that is not 1 (a size of 1 stretches, to 0 as well)
Broadcast(s1, s2) ==
    LET n == Max(Len(s1), Len(s2))
    IN  [i \in 1..n |-> IF Pad(s1, n)[i] = 1 THEN Pad(s2, n)[i]
                                             ELSE Pad(s1, n)[i]]

\* F.linear(x, W, B) for tensors W (out, in) and B (out,)
F_linear(x, W, B) ==
    IF \/ x.err
       \/ Len(x.shape) = 0
       \/ Len(W.shape) # 2
       \/ x.shape[Len(x.shape)] # W.shape[2]
       \/ ~Broadcastable(<<W.shape[1]>>, B.shape)
       \/ Broadcast(<<W.shape[1]>>, B.shape) # <<W.shape[1]>>
    THEN ErrT
    ELSE Act([x.shape EXCEPT ![Len(x.shape)] = W.shape[1]],
             x.val \o <<TagLinear, W.val, B.val>>)

\* BayesianLinear.forward: the weight and the bias are drawn on every
\* forward pass, then applied as a linear layer
BayesianLinear_forward(h, m, x, r) ==
    LET W == Tensor(h[m.w].shape,
                    h[m.w].val + Sigma(h[m.w_rho].val) * Rand(r))
        B == Tensor(h[m.b].shape,
                    h[m.b].val + Sigma(h[m.b_rho].val) * Rand(NextRng(r)))
    IN  [y |-> F_linear(x, W, B), rng |-> NextRng(NextRng(r))]

\* one module applied to x with the generator at r: the output and the
\* generator afterwards
Module_forward(h, m, x, r) ==
    IF x.err THEN [y |-> ErrT, rng |-> r]
    ELSE IF m.kind \in {"Linear", "NonDynamicallyQuantizableLinear"}
    THEN [y |-> F_linear(x, h[m.w], h[m.b]), rng |-> r]
    ELSE IF m.kind = "BayesianLinear" THEN BayesianLinear_forward(h, m, x, r)
    ELSE [y |-> Act(x.shape, Append(x.val, TagTanh)), rng |-> r]

\* nn.Sequential.forward: the modules i.. of seq applied in order
RECURSIVE Sequential_forward(_, _, _, _, _)
Sequential_forward(h, seq, i, x, r) ==
    IF i > Len(seq) THEN [y |-> x, rng |-> r]
    ELSE Bind(Module_forward(h, seq[i], x, r), LAMBDA o :
         Sequential_forward(h, seq, i + 1, o.y, o.rng))

\* actor_logstd.expand_as(action_mean)
expand_as(t, other) ==
    IF other.err \/ ~Broadcastable(t.shape, other.shape)
       \/ Broadcast(t.shape, other.shape) # other.shape
    THEN ErrT
    ELSE Act(other.shape, <<t.val>>)

torch_exp(t) == IF t.err THEN ErrT ELSE Act(t.shape, <<TagExp>> \o t.val)

\* Normal(loc, scale)
Normal(loc, scale) ==
    IF loc.err \/ scale.err \/ ~Broadcastable(loc.shape, scale.shape)
    THEN [shape |-> <<>>, loc |-> <<>>, scale |-> <<>>, err |-> TRUE]
    ELSE [shape |-> Broadcast(loc.shape, scale.shape),
          loc |-> loc.val, scale |-> scale.val, err |-> FALSE]

\* the number of elements of a tensor of the given shape
RECURSIVE Numel(_)
Numel(shape) == IF Len(shape) = 0 THEN 1 ELSE shape[1] * Numel(Tail(shape))

\* probs.sample(): one draw of the distribution's shape, and the generator
\* after it; a draw of no element (an empty batch) leaves the generator as
\* it is
Normal_sample(probs, r) ==
    IF probs.err THEN [y |-> ErrT, rng |-> r]
    ELSE [y |-> Act(probs.shape,
                    <<TagSample, Rand(r)>> \o probs.loc \o probs.scale),
          rng |-> IF Numel(probs.shape) = 0 THEN r ELSE NextRng(r)]

\* probs.log_prob(value): the per-element log-density
Normal_log_prob(probs, value) ==
    IF probs.err \/ value.err \/ ~Broadcastable(probs.shape, value.shape)
    THEN ErrT
    ELSE Act(Broadcast(probs.shape, value.shape),
             <<TagLogProb>> \o value.val \o probs.loc \o probs.scale)

\* probs.entropy(): the per-element entropy
Normal_entropy(probs) ==
    IF probs.err THEN ErrT ELSE Act(probs.shape, <<TagEntropy>> \o probs.scale)

\* t.sum(1): the second axis is removed and its n elements are added up,
\* written <<TagSum, n>> before the element's trace
sum_axis0(t) ==
    IF t.err \/ Len(t.shape) < 2 THEN ErrT
    ELSE Act(Tail(t.shape), <<TagSum, t.shape[1]>> \o t.val)

sum_axis1(t) ==
    IF t.err \/ Len(t.shape) < 2 THEN ErrT
    ELSE Act(<<t.shape[1]>> \o Tail(Tail(t.shape)),
             <<TagSum, t.shape[2]>> \o t.val)

(* ------------------------- get_value and friends ---------------------- *)
\* what a call returns, with the heap and the generator after it
CallResult(h, r, action, logprob, entropy, value, drew) ==
    [heap |-> h, rng |-> r, action |-> action, logprob |-> logprob,
     entropy |-> entropy, value |-> value, drew |-> drew,
     err |-> action.err \/ logprob.err \/ entropy.err \/ value.err]

\* get_value(self, x): self.critic(x)
get_value(h, self, x, r) ==
    Bind(Sequential_forward(h, self.critic, 1, x, r), LAMBDA v :
    CallResult(h, v.rng, NoneT, NoneT, NoneT, v.y, 0))

\* if action is None: action = probs.sample()
choose_action_always_samples(probs, action, r) ==
    Bind(Normal_sample(probs, r), LAMBDA s :
    [action |-> s.y, rng |-> s.rng, drew |-> 1])

choose_action(probs, action, r) ==
    IF IsNone(action) /\ ~probs.err
    THEN Bind(Normal_sample(probs, r), LAMBDA s :
         [action |-> s.y, rng |-> s.rng, drew |-> 1])
    ELSE IF IsNone(action) THEN [action |-> ErrT, rng |-> r, drew |-> 0]
    ELSE [action |-> action, rng |-> r, drew |-> 0]

\* the return statement of get_action_and_value: the log-probability and
\* the entropy summed over axis 1, then self.critic(x)
returned(h, self, x, probs, ch) ==
    Bind(sum_axis1(Normal_log_prob(probs, ch.action)), LAMBDA lp :
    Bind(sum_axis1(Normal_entropy(probs)), LAMBDA ent :
    Bind(IF lp.err THEN [y |-> ErrT, rng |-> ch.rng]
         ELSE Sequential_forward(h, self.critic, 1, x, ch.rng), LAMBDA v :
    CallResult(h, v.rng, ch.action, lp, ent, v.y, ch.drew))))

\* get_action_and_value(self, x, action=None), the same code in Agent
\* (inherited by SampledAgent) and in BayesianAgent
get_action_and_value_exp_inplace(h, self, x, action, r) ==
    Bind(Sequential_forward(h, self.actor_mean, 1, x, r), LAMBDA am :
    Bind(expand_as(h[self.actor_logstd], am.y), LAMBDA logstd :
    Bind(Normal(am.y, torch_exp(logstd)), LAMBDA probs :
    Bind(choose_action(probs, action, am.rng), LAMBDA ch :
    returned([h EXCEPT ![self.actor_logstd].val = @ + TagExp],
             self, x, probs, ch)))))

get_action_and_value(h, self, x, action, r) ==
    Bind(Sequential_forward(h, self.actor_mean, 1, x, r), LAMBDA am :
    Bind(expand_as(h[self.actor_logstd], am.y), LAMBDA logstd :
    Bind(Normal(am.y, torch_exp(logstd)), LAMBDA probs :
    Bind(choose_action(probs, action, am.rng), LAMBDA ch :
    returned(h, self, x, probs, ch)))))

(* ------------------------------- state -------------------------------- *)
\* the parameter tensors of one sub-network, and of one parameter group
SeqAddrs(seq) ==
    UNION {{seq[i].w, seq[i].b, seq[i].w_rho, seq[i].b_rho} : i \in DOMAIN seq}
        \ {0}

GroupAddrs(agent, g) ==
    IF g = "critic" THEN SeqAddrs(agent.critic)
    ELSE IF g = "actor_mean" THEN SeqAddrs(agent.actor_mean)
    ELSE {agent.actor_logstd}

Groups == {"critic", "actor_mean", "actor_logstd"}

AgentAddrs(agent) == UNION {GroupAddrs(agent, g) : g \in Groups}

\* the heap without the cells that no agent in as refers to
Collect(h, as) ==
    LET live == UNION {AgentAddrs(as[i]) : i \in DOMAIN as}
    IN  [a \in (DOMAIN h) \cap live |-> h[a]]

SeqOids(seq) == {seq[i].oid : i \in DOMAIN seq}

\* an in-place update of the tensors A (an optimizer step on them)
Bump(h, A) ==
    [a \in DOMAIN h |-> IF a \in A THEN [h[a] EXCEPT !.val = @ + 1] ELSE h[a]]

NoCall ==
    [agent |-> 0, x |-> NoneT, action_in |-> NoneT, rng0 |-> 0,
     res |-> CallResult(<<>>, 0, NoneT, NoneT, NoneT, NoneT, 0)]

\* the observations and actions the calls are made with; a batch may be
\* empty
Batches == 0..MaxBatch

\* the contents the observations and the supplied actions stand for
XVals == {1}

Observations(envs) ==
    {Act(<<B, envs.obs>>, <<v>>) : B \in Batches, v \in XVals}

\* None, an action per observation, or one 0-dimensional tensor that
\* broadcasts against the distribution
Actions(envs, x) ==
    {NoneT} \cup {Act(<<x.shape[1], envs.act>>, <<v>>) : v \in XVals}
            \cup {Act(<<>>, <<v>>) : v \in XVals}

\* agent 0 is the Bayesian agent, agent i > 0 the i-th sampled agent
TheAgent(i) == IF i = 0 THEN bayes ELSE agents[i]

\* a BayesianAgent built by its constructor, the generator seeded with one
\* of seeds
InitWith(seeds) ==
    \E envs \in Envs, seed \in seeds :
        \E b \in {BayesianAgent_init(St(<<>>, 0, seed, 1, <<>>), envs,
                                      NumberOfCellTypes)} :
            /\ heap = b.st.heap
            /\ top = b.st.top
            /\ rng = b.st.rng
            /\ nextOid = b.st.oid
            /\ bayes = b.agent
            /\ agents = <<>>
            /\ hist = <<>>
            /\ last = NoCall
            /\ op = "init"
            /\ nmut = 0

Init == InitWith(0..(RngPeriod - 1))

\* sampled_agent = agent.sample_vanilla_agent()
SampleVanillaAgent ==
    /\ Len(agents) < MaxSamples
    /\ \E r \in {sample_vanilla_agent(St(heap, top, rng, nextOid, <<>>), bayes)} :
           /\ heap' = Collect(r.st.heap, <<r.self>> \o Append(agents, r.agent))
           /\ top' = r.st.top
           /\ rng' = r.st.rng
           /\ nextOid' = r.st.oid
           /\ bayes' = r.self
           /\ agents' = Append(agents, r.agent)
           /\ hist' = Append(hist, [draws |-> r.st.draws, pieces |-> r.pieces,
                                    defaults |-> r.defaults])
    /\ last' = NoCall
    /\ op' = "sample_vanilla_agent"
    /\ UNCHANGED nmut

\* the training optimizer updates one parameter group of the Bayesian
\* agent in place
OptimizerStep ==
    /\ nmut < MaxMutations
    /\ \E g \in Groups : heap' = Bump(heap, GroupAddrs(bayes, g))
    /\ nmut' = nmut + 1
    /\ last' = NoCall
    /\ op' = "optimizer_step"
    /\ UNCHANGED <<top, rng, nextOid, bayes, agents, hist>>

\* one parameter group of a sampled agent is updated in place
MutateSampled ==
    /\ nmut < MaxMutations
    /\ \E i \in DOMAIN agents, g \in Groups :
          /\ heap' = Bump(heap, GroupAddrs(agents[i], g))
          /\ last' = [NoCall EXCEPT !.agent = i]
    /\ nmut' = nmut + 1
    /\ op' = "mutate_sampled"
    /\ UNCHANGED <<top, rng, nextOid, bayes, agents, hist>>

GetValue ==
    /\ \E i \in 0..Len(agents) : \E x \in Observations(bayes.envs) :
          \E r \in {get_value(heap, TheAgent(i), x, rng)} :
              /\ heap' = r.heap
              /\ rng' = r.rng
              /\ last' = [agent |-> i, x |-> x, action_in |-> NoneT,
                          rng0 |-> rng, res |-> [r EXCEPT !.heap = <<>>]]
    /\ op' = "get_value"
    /\ UNCHANGED <<top, nextOid, bayes, agents, hist, nmut>>

GetActionAndValue ==
    /\ \E i \in 0..Len(agents) : \E x \in Observations(bayes.envs) :
       \E action \in Actions(bayes.envs, x) :
          \E r \in {get_action_and_value(heap, TheAgent(i), x, action, rng)} :
              /\ heap' = r.heap
              /\ rng' = r.rng
              /\ last' = [agent |-> i, x |-> x, action_in |-> action,
                          rng0 |-> rng, res |-> [r EXCEPT !.heap = <<>>]]
    /\ op' = "get_action_and_value"
    /\ UNCHANGED <<top, nextOid, bayes, agents, hist, nmut>>

\* Sampling and parameter updates, in any order.
Next ==
    \/ SampleVanillaAgent
    \/ OptimizerStep
    \/ MutateSampled

Spec == Init /\ [][Next]_vars

\* Sampling and calls of the agents' methods, in any order.
NextCalls ==
    \/ SampleVanillaAgent
    \/ GetValue
    \/ GetActionAndValue

InitCalls == InitWith({0})

SpecCalls == InitCalls /\ [][NextCalls]_vars

(* ------------------- arbitrary component sequences -------------------- *)
\* the component types a sub-network may be assembled from;
\* NonDynamicallyQuantizableLinear is torch's subclass of nn.Linear
Kinds == {"BayesianLinear", "Linear", "Tanh",
          "NonDynamicallyQuantizableLinear"}

KindSeqs == UNION {[1..n -> Kinds] : n \in 0..MaxLen}

SeqEnv == [obs |-> 48, act |-> 12]

\* one component of the given type
Build_component(st, kind, inF, outF) ==
    IF kind = "BayesianLinear" THEN BayesianLinear_init(st, inF, outF)
    ELSE IF kind = "Linear" THEN nn_Linear(st, inF, outF)
    ELSE IF kind = "NonDynamicallyQuantizableLinear"
    THEN Bind(nn_Linear(st, inF, outF),
              LAMBDA r : [st |-> r.st, m |-> [r.m EXCEPT !.kind = kind]])
    ELSE nn_Tanh(st)

\* nn.Sequential(...) of components of the given types, from width inW to
\* width outW through hidden layers of width Hidden
RECURSIVE Build_sequential(_, _, _, _, _, _)
Build_sequential(st, kinds, i, inW, outW, acc) ==
    IF i > Len(kinds) THEN [st |-> st, layers |-> acc]
    ELSE Bind(Build_component(st, kinds[i],
                              IF i = 1 THEN inW ELSE Hidden,
                              IF i = Len(kinds) THEN outW ELSE Hidden),
              LAMBDA r : Build_sequential(r.st, kinds, i + 1, inW, outW,
                                          Append(acc, r.m)))

\* a BayesianAgent whose sub-networks were replaced by arbitrary sequences
InitSeq ==
    \E ck \in KindSeqs, ak \in KindSeqs :
    \E c \in {Build_sequential(St(<<>>, 0, 0, 1, <<>>), ck, 1,
                                SeqEnv.obs, ValueWidth, <<>>)} :
    \E a \in {Build_sequential(c.st, ak, 1, SeqEnv.obs, SeqEnv.act, <<>>)} :
    \E l \in {Alloc(a.st, Tensor(<<1, SeqEnv.act>>, 0))} :
            /\ heap = l.heap
            /\ top = l.top
            /\ rng = l.rng
            /\ nextOid = l.oid
            /\ bayes = AgentRec(c.layers, a.layers, Top(l), SeqEnv)
            /\ agents = <<>>
            /\ hist = <<>>
            /\ last = NoCall
            /\ op = "init"
            /\ nmut = 0

NextSeq == SampleVanillaAgent

SpecSeq == InitSeq /\ [][NextSeq]_vars

(* ------------------------------ properties ---------------------------- *)
ParamTensors(agent) == [a \in AgentAddrs(agent) |-> heap[a]]

\* the parameter contents of every sampled agent, and of the source
SampledValues == [i \in DOMAIN agents |-> ParamTensors(agents[i])]

BayesValues == ParamTensors(bayes)

KindsOf(seq) == [j \in DOMAIN seq |-> seq[j].kind]

Nets == {"actor_mean", "critic"}

Net(agent, n) == IF n = "critic" THEN agent.critic ELSE agent.actor_mean

AgentOids(agent) == SeqOids(agent.critic) \cup SeqOids(agent.actor_mean)

IsCall(o) == o \in {"get_value", "get_action_and_value"}

\* C1: a sampled agent shares no parameter storage with the Bayesian agent,
\* and no update of the Bayesian agent's parameters changes any weight,
\* bias or actor_logstd value of an agent sampled before it.
NoStorageSharedWithSource ==
    \A i \in DOMAIN agents : AgentAddrs(agents[i]) \cap AgentAddrs(bayes) = {}

SnapshotIsolation ==
    /\ []NoStorageSharedWithSource
    /\ [][op' = "optimizer_step" => SampledValues' = SampledValues]_vars

SnapshotIsolationWitness ==
    /\ op = "optimizer_step"
    /\ Len(agents) >= 1
    /\ heap[bayes.actor_mean[5].w].val # heap[agents[1].actor_mean[5].w].val
    /\ heap[bayes.actor_logstd].val = heap[agents[1].actor_logstd].val

\* C2: for the constructor's architecture every sampled sub-network has the
\* source's length and order, holds a plain Linear where the source holds a
\* BayesianLinear, a Tanh right after each such layer, a plain Linear last,
\* and no Bayesian layer.
SampledKind(k) == IF k = "BayesianLinear" THEN "Linear" ELSE k

SampledStructure ==
    \A i \in DOMAIN agents : \A n \in Nets :
        LET src == Net(bayes, n)
            out == Net(agents[i], n)
        IN  /\ Len(out) = Len(src)
            /\ \A j \in DOMAIN out :
                  /\ out[j].kind = SampledKind(src[j].kind)
                  /\ out[j].kind # "BayesianLinear"
                  /\ (src[j].kind = "BayesianLinear") =>
                        /\ j < Len(out)
                        /\ out[j + 1].kind = src[j + 1].kind
                        /\ out[j + 1].kind = "Tanh"
            /\ out[Len(out)].kind = "Linear"

SampledStructureWitness ==
    /\ Len(agents) = 2
    /\ KindsOf(bayes.critic)
          = <<"BayesianLinear", "Tanh", "BayesianLinear", "Tanh", "Linear">>
    /\ KindsOf(agents[2].critic) = <<"Linear", "Tanh", "Linear", "Tanh", "Linear">>
    /\ KindsOf(agents[2].actor_mean)
          = <<"Linear", "Tanh", "Linear", "Tanh", "Linear">>

\* C3: a call of sample_vanilla_agent leaves the Bayesian agent's layer
\* sequences and every one of its parameter tensors as they were.
SamplingLeavesSourceUnchanged ==
    [][op' = "sample_vanilla_agent" =>
          (bayes' = bayes /\ BayesValues' = BayesValues)]_vars

SamplingLeavesSourceUnchangedWitness ==
    /\ op = "sample_vanilla_agent"
    /\ Len(agents) = 2
    /\ nmut >= 1

\* C4: when sample_vanilla_agent returns, every layer built for a Bayesian
\* layer holds exactly the tensors of that layer's single weight draw and
\* single bias draw of this call, and every copied Linear layer and
\* actor_logstd hold the source's contents.
DrawsOf(d, oid, which) ==
    {k \in DOMAIN d : d[k].layer = oid /\ d[k].which = which}

ExactDraws ==
    (op = "sample_vanilla_agent") =>
        LET s == agents[Len(agents)]
            d == hist[Len(agents)].draws
        IN  /\ \A n \in Nets : \A j \in DOMAIN Net(bayes, n) :
                  LET m    == Net(bayes, n)[j]
                      outs == {k \in DOMAIN Net(s, n) :
                                  /\ Net(s, n)[k].from = m.oid
                                  /\ Net(s, n)[k].kind = "Linear"}
                  IN  /\ (m.kind = "BayesianLinear") =>
                            /\ Cardinality(DrawsOf(d, m.oid, "weight")) = 1
                            /\ Cardinality(DrawsOf(d, m.oid, "bias")) = 1
                            /\ Cardinality(outs) = 1
                            /\ \A k \in outs :
                                  /\ \A q \in DrawsOf(d, m.oid, "weight") :
                                        heap[Net(s, n)[k].w] = d[q].t
                                  /\ \A q \in DrawsOf(d, m.oid, "bias") :
                                        heap[Net(s, n)[k].b] = d[q].t
                      /\ (m.kind = "Linear") =>
                            /\ Cardinality(outs) = 1
                            /\ \A k \in outs :
                                  /\ heap[Net(s, n)[k].w] = heap[m.w]
                                  /\ heap[Net(s, n)[k].b] = heap[m.b]
            /\ Len(d) = 2 * Cardinality({x \in AgentOids(bayes) :
                                \E n \in Nets : \E j \in DOMAIN Net(bayes, n) :
                                    /\ Net(bayes, n)[j].oid = x
                                    /\ Net(bayes, n)[j].kind = "BayesianLinear"})
            /\ heap[s.actor_logstd] = heap[bayes.actor_logstd]

ExactDrawsWitness ==
    /\ op = "sample_vanilla_agent"
    /\ nmut >= 1
    /\ Len(hist[Len(agents)].draws) = 8
    /\ heap[agents[Len(agents)].critic[1].w].val # heap[bayes.critic[1].w].val
    /\ heap[agents[Len(agents)].critic[5].w].val # 0

\* C5: every sampled Linear layer has in_features = its weight's column
\* count, out_features = its row count and a bias of that length; layer by
\* layer the widths are the source's, adjacent layers chain, and the
\* sampled agent maps an observation batch to the same action and value
\* shapes as the source.
Probe(envs) == Act(<<1, envs.obs>>, <<0>>)

ShapePreserving ==
    \A i \in DOMAIN agents : \A n \in Nets :
        LET src == Net(bayes, n)
            out == Net(agents[i], n)
            lin == {j \in DOMAIN out : out[j].kind = "Linear"}
        IN  /\ \A j \in lin :
                  /\ out[j].in_features = heap[out[j].w].shape[2]
                  /\ out[j].out_features = heap[out[j].w].shape[1]
                  /\ heap[out[j].b].shape = <<heap[out[j].w].shape[1]>>
                  /\ j \in DOMAIN src
                  /\ out[j].in_features = src[j].in_features
                  /\ out[j].out_features = src[j].out_features
            /\ \A j, k \in lin :
                  (j < k /\ ~(\E q \in lin : j < q /\ q < k)) =>
                        out[j].out_features = out[k].in_features
            /\ Sequential_forward(heap, out, 1, Probe(bayes.envs), 0).y.shape
                  = Sequential_forward(heap, src, 1, Probe(bayes.envs), 0).y.shape
            /\ Sequential_forward(heap, out, 1, Probe(bayes.envs), 0).y.shape
                  = <<1, IF n = "critic" THEN ValueWidth ELSE bayes.envs.act>>

ShapePreservingWitness ==
    /\ Len(agents) >= 1
    /\ agents[1].actor_mean[1].in_features = 48
    /\ agents[1].actor_mean[1].out_features = 256
    /\ heap[agents[1].actor_mean[1].w].shape = <<256, 48>>
    /\ heap[agents[1].actor_mean[5].w].shape = <<12, 256>>
    /\ heap[agents[1].critic[5].b].shape = <<1>>

\* the elements i..j of a trace
Slice(v, i, j) == [k \in 1..(j - i + 1) |-> v[i + k - 1]]

\* the generator when the critic is run in get_action_and_value: after the
\* draws of the actor's forward pass and the draw of the action, if any
CriticRng(c) ==
    LET r1 == Sequential_forward(heap, TheAgent(c.agent).actor_mean, 1,
                                 c.x, c.rng0).rng
    IN  IF c.res.drew = 1 /\ Numel(c.res.action.shape) > 0
        THEN NextRng(r1) ELSE r1

\* C6: get_action_and_value draws an action from the Gaussian if and only
\* if none is supplied; a supplied action is returned as it is, without a
\* draw; the log-probability is that of the returned action and the value
\* is the critic's output for the same observation.  A draw takes one
\* output of the generator unless the action drawn has no element.
ActionDrawnIffNotSupplied ==
    (op = "get_action_and_value" /\ ~last.res.err) =>
        LET r == last.res
            n == Len(r.action.val)
        IN  /\ (r.drew = 1) <=> IsNone(last.action_in)
            /\ r.drew \in {0, 1}
            /\ (~IsNone(last.action_in)) => (r.action = last.action_in)
            /\ IsNone(last.action_in) => r.action.val[1] = TagSample
            /\ (IsNone(last.action_in) /\ Numel(r.action.shape) > 0) =>
                  r.action.val[2]
                        = Rand(Sequential_forward(heap,
                                   TheAgent(last.agent).actor_mean, 1,
                                   last.x, last.rng0).rng)
            /\ (last.agent >= 1) =>
                  rng = IF r.drew = 1 /\ Numel(r.action.shape) > 0
                        THEN NextRng(last.rng0) ELSE last.rng0
            /\ r.logprob.val[3] = TagLogProb
            /\ Slice(r.logprob.val, 4, 3 + n) = r.action.val
            /\ r.value = Sequential_forward(heap, TheAgent(last.agent).critic,
                                            1, last.x, CriticRng(last)).y

ActionDrawnIffNotSuppliedWitness ==
    /\ op = "get_action_and_value"
    /\ ~last.res.err
    /\ last.agent >= 1
    /\ ~IsNone(last.action_in)
    /\ last.action_in.shape = <<>>
    /\ last.res.action = last.action_in
    /\ last.res.drew = 0
    /\ rng = last.rng0

Undrawn(res) ==
    IF res.drew = 1 /\ ~res.err
    THEN [res EXCEPT !.action.val[2] = 0, !.logprob.val[5] = 0,
                     !.rng = 0, !.heap = <<>>]
    ELSE [res EXCEPT !.rng = 0, !.heap = <<>>]

\* the call c of method o made again on agents as, the generator at r
Rerun(h, as, o, c, r) ==
    IF o = "get_value" THEN get_value(h, as[c.agent], c.x, r)
    ELSE get_action_and_value(h, as[c.agent], c.x, c.action_in, r)

\* C8: a get_value or get_action_and_value call on a sampled agent changes
\* no weight, bias or actor_logstd value of any sampled agent; what it
\* returns (action, log-probability, entropy, value) is, but for the value
\* drawn for the action, what the same call returns from any state of the
\* generator, and what the call before it returned if that was the same
\* call with the same input.
CallsLeaveSampledAgentsUnchanged ==
    [][(IsCall(op') /\ last'.agent >= 1) =>
          /\ agents' = agents
          /\ SampledValues' = SampledValues
          /\ \A r \in 0..(RngPeriod - 1) :
                Undrawn(Rerun(heap', agents', op', last', r))
                    = Undrawn(last'.res)
          /\ (/\ op = op'
              /\ last.agent = last'.agent
              /\ last.x = last'.x
              /\ last.action_in = last'.action_in)
                => Undrawn(last.res) = Undrawn(last'.res)]_vars

CallsLeaveSampledAgentsUnchangedWitness ==
    /\ op = "get_action_and_value"
    /\ last.agent = 2
    /\ IsNone(last.action_in)
    /\ last.res.drew = 1
    /\ ~last.res.err
    /\ rng # last.rng0

\* C9: sample_vanilla_agent applied to any component sequence yields, in
\* source order, a Linear and a Tanh for each BayesianLinear and one Linear
\* for each component whose type is exactly Linear, and nothing for any
\* other component.
PosOf(seq, oid) == CHOOSE j \in DOMAIN seq : seq[j].oid = oid

UnrecognizedDropped ==
    \A i \in DOMAIN agents : \A n \in Nets :
        LET src == Net(bayes, n)
            out == Net(agents[i], n)
            of(m) == {k \in DOMAIN out : out[k].from = m.oid}
        IN  /\ \A k \in DOMAIN out :
                  /\ out[k].kind \in {"Linear", "Tanh"}
                  /\ \E j \in DOMAIN src : src[j].oid = out[k].from
            /\ \A k, q \in DOMAIN out :
                  (k < q) => PosOf(src, out[k].from) <= PosOf(src, out[q].from)
            /\ \A j \in DOMAIN src :
                  /\ (src[j].kind = "BayesianLinear") =>
                        \E k \in DOMAIN out :
                            /\ of(src[j]) = {k, k + 1}
                            /\ out[k].kind = "Linear"
                            /\ out[k + 1].kind = "Tanh"
                  /\ (src[j].kind = "Linear") =>
                        \E k \in DOMAIN out :
                            /\ of(src[j]) = {k}
                            /\ out[k].kind = "Linear"
                            /\ heap[out[k].w] = heap[src[j].w]
                  /\ (src[j].kind \notin {"BayesianLinear", "Linear"}) =>
                        of(src[j]) = {}

UnrecognizedDroppedWitness ==
    /\ Len(agents) >= 1
    /\ KindsOf(bayes.actor_mean) = <<"Linear", "Tanh">>
    /\ KindsOf(agents[1].actor_mean) = <<"Linear">>
    /\ KindsOf(bayes.critic) = <<"NonDynamicallyQuantizableLinear", "BayesianLinear">>
    /\ KindsOf(agents[1].critic) = <<"Linear", "Tanh">>

\* C10: a sampled agent consists of exactly the pieces assembled for it,
\* none of the layers or tensors the base constructor built; its actor and
\* critic share no layer and no tensor, and two sampled agents share no
\* layer, weight, bias or actor_logstd.
SampledAgentsIndependent ==
    /\ \A i \in DOMAIN agents :
          LET s == agents[i]
              d == hist[i].defaults
          IN  /\ s.critic = hist[i].pieces.critic
              /\ s.actor_mean = hist[i].pieces.actor_mean
              /\ s.actor_logstd = hist[i].pieces.actor_logstd
              /\ AgentOids(s) \cap AgentOids(d) = {}
              /\ AgentAddrs(s) \cap AgentAddrs(d) = {}
              /\ SeqOids(s.critic) \cap SeqOids(s.actor_mean) = {}
              /\ SeqAddrs(s.critic) \cap SeqAddrs(s.actor_mean) = {}
              /\ s.actor_logstd \notin SeqAddrs(s.critic) \cup SeqAddrs(s.actor_mean)
              /\ Cardinality(SeqOids(s.critic)) = Len(s.critic)
              /\ Cardinality(SeqOids(s.actor_mean)) = Len(s.actor_mean)
              /\ AgentAddrs(s) \subseteq DOMAIN heap
    /\ \A i, j \in DOMAIN agents :
          (i # j) =>
              /\ AgentOids(agents[i]) \cap AgentOids(agents[j]) = {}
              /\ AgentAddrs(agents[i]) \cap AgentAddrs(agents[j]) = {}

SampledAgentsIndependentWitness ==
    /\ Len(agents) = 2
    /\ op = "mutate_sampled"
    /\ nmut = 2
    /\ heap[agents[1].actor_logstd].val # heap[agents[2].actor_logstd].val

====
